---- MODULE Spec2Model ----
(***************************************************************************)
(* Model of the Lambda@Edge authentication and routing gate of             *)
(* s3-multi-site-hosting (the auth handler, src/unnamed/part_000).         *)
(*                                                                         *)
(* Strings are sequences of Unicode code points (ASCII text is its own     *)
(* byte sequence), so that the conversions the handler relies on           *)
(* (base64, UTF-8, form-urlencoding, cookie parsing, the extension test)   *)
(* are computed as the runtime computes them.                              *)
(***************************************************************************)
EXTENDS Integers, Sequences, FiniteSets, TLC

\* ------------------------------------------------------------------------
\* Bounds of the model (not program constants)
\* ------------------------------------------------------------------------
\* number of invocations that can be in flight in one execution context
NumInv == 2
\* longest request path enumerated for the path router
MaxPathLen == 4
\* longest path enumerated for the state codec
MaxCodecPathLen == 3
\* longest raw state string enumerated for decodeState
MaxStateLen == 3

\* ------------------------------------------------------------------------
\* Text
\* ------------------------------------------------------------------------
\* printable ASCII, code points 32..126, in order (code point 96 is spelled out)
Ascii ==
  << " ", "!", "\"", "#", "$", "%", "&", "'", "(", ")", "*", "+", ",", "-", ".", "/",
     "0", "1", "2", "3", "4", "5", "6", "7", "8", "9", ":", ";", "<", "=", ">", "?",
     "@", "A", "B", "C", "D", "E", "F", "G", "H", "I", "J", "K", "L", "M", "N", "O",
     "P", "Q", "R", "S", "T", "U", "V", "W", "X", "Y", "Z", "[", "\\", "]", "^", "_",
     "grave", "a", "b", "c", "d", "e", "f", "g", "h", "i", "j", "k", "l", "m", "n", "o",
     "p", "q", "r", "s", "t", "u", "v", "w", "x", "y", "z", "{", "|", "}", "~" >>

\* code point of a one-character string
Ord(c) == 31 + (CHOOSE i \in 1..Len(Ascii) : Ascii[i] = c)

\* the string written as a tuple of characters, as a sequence of code points
Str(cs) == [i \in 1..Len(cs) |-> Ord(cs[i])]

\* U+FFFD, which the UTF-8 decoder substitutes for an ill-formed sequence
ReplacementChar == 65533

\* s.slice(from, to) with 1-based inclusive positions
Slice(s, from, to) == IF to < from THEN << >> ELSE SubSeq(s, from, to)

\* s.endsWith(suffix)
EndsWith(s, suffix) ==
  /\ Len(suffix) <= Len(s)
  /\ Slice(s, Len(s) - Len(suffix) + 1, Len(s)) = suffix

\* s.indexOf(sub): the first 1-based position of sub in s, 0 when absent
IndexOf(s, sub) ==
  LET hits == { i \in 1..(Len(s) - Len(sub) + 1) : Slice(s, i, i + Len(sub) - 1) = sub }
  IN  IF hits = {} THEN 0 ELSE CHOOSE i \in hits : \A j \in hits : i <= j

\* s.includes(sub)
Includes(s, sub) == IndexOf(s, sub) # 0

\* s.replace(sub, "") with a string pattern: only the FIRST occurrence goes
ReplaceFirst(s, sub) ==
  LET i == IndexOf(s, sub)
  IN  IF i = 0 THEN s ELSE Slice(s, 1, i - 1) \o Slice(s, i + Len(sub), Len(s))

\* s.split(sep) for a one-character separator: the sequence of the pieces
RECURSIVE Split(_, _)
Split(s, sep) ==
  LET i == IndexOf(s, <<sep>>)
  IN  IF i = 0 THEN << s >>
      ELSE << Slice(s, 1, i - 1) >> \o Split(Slice(s, i + 1, Len(s)), sep)

\* parts.join(sep)
RECURSIVE Join(_, _)
Join(parts, sep) ==
  IF Len(parts) = 0 THEN << >>
  ELSE IF Len(parts) = 1 THEN parts[1]
  ELSE parts[1] \o << sep >> \o Join(Tail(parts), sep)

\* the white space String.prototype.trim removes (ASCII part)
IsSpace(c) == c \in {9, 10, 11, 12, 13, 32}

\* s.trim()
RECURSIVE Trim(_)
Trim(s) ==
  IF Len(s) = 0 THEN s
  ELSE IF IsSpace(s[1]) THEN Trim(Tail(s))
  ELSE IF IsSpace(s[Len(s)]) THEN Trim(Slice(s, 1, Len(s) - 1))
  ELSE s

\* ------------------------------------------------------------------------
\* UTF-8 (Buffer.from(string) and buffer.toString('utf-8'))
\* ------------------------------------------------------------------------
\* the UTF-8 bytes of one code point
UTF8EncodeChar(cp) ==
  IF cp < 128 THEN << cp >>
  ELSE IF cp < 2048 THEN << 192 + (cp \div 64), 128 + (cp % 64) >>
  ELSE IF cp < 65536
    THEN << 224 + (cp \div 4096), 128 + ((cp \div 64) % 64), 128 + (cp % 64) >>
  ELSE << 240 + (cp \div 262144), 128 + ((cp \div 4096) % 64),
          128 + ((cp \div 64) % 64), 128 + (cp % 64) >>

\* the UTF-8 bytes of a string
RECURSIVE UTF8Encode(_)
UTF8Encode(s) ==
  IF Len(s) = 0 THEN << >> ELSE UTF8EncodeChar(s[1]) \o UTF8Encode(Tail(s))

\* a continuation byte
IsCont(b) == b >= 128 /\ b <= 191

\* the range the second byte of a multi-byte sequence must lie in
SecondByteOk(lead, b) ==
  CASE lead = 224 -> b >= 160 /\ b <= 191
    [] lead = 237 -> b >= 128 /\ b <= 159
    [] lead = 240 -> b >= 144 /\ b <= 191
    [] lead = 244 -> b >= 128 /\ b <= 143
    [] OTHER -> IsCont(b)

\* the string a byte sequence decodes to; every ill-formed maximal subpart
\* becomes U+FFFD and nothing is ever thrown
RECURSIVE UTF8Decode(_)
UTF8Decode(bs) ==
  IF Len(bs) = 0 THEN << >>
  ELSE
    LET b1 == bs[1]
        n == Len(bs)
        need == IF b1 < 128 THEN 0
                ELSE IF b1 >= 194 /\ b1 <= 223 THEN 1
                ELSE IF b1 >= 224 /\ b1 <= 239 THEN 2
                ELSE IF b1 >= 240 /\ b1 <= 244 THEN 3
                ELSE 4
        rest(k) == Slice(bs, k + 1, n)
    IN  IF need = 0 THEN << b1 >> \o UTF8Decode(rest(1))
        ELSE IF need = 4 THEN << ReplacementChar >> \o UTF8Decode(rest(1))
        ELSE IF n < 2 \/ ~SecondByteOk(b1, bs[2])
          THEN << ReplacementChar >> \o UTF8Decode(rest(1))
        ELSE IF need = 1
          THEN << (b1 - 192) * 64 + (bs[2] - 128) >> \o UTF8Decode(rest(2))
        ELSE IF n < 3 \/ ~IsCont(bs[3])
          THEN << ReplacementChar >> \o UTF8Decode(rest(2))
        ELSE IF need = 2
          THEN << (b1 - 224) * 4096 + (bs[2] - 128) * 64 + (bs[3] - 128) >>
               \o UTF8Decode(rest(3))
        ELSE IF n < 4 \/ ~IsCont(bs[4])
          THEN << ReplacementChar >> \o UTF8Decode(rest(3))
        ELSE << (b1 - 240) * 262144 + (bs[2] - 128) * 4096
                + (bs[3] - 128) * 64 + (bs[4] - 128) >> \o UTF8Decode(rest(4))

\* ------------------------------------------------------------------------
\* base64 (buffer.toString('base64') and Buffer.from(string, 'base64'))
\* ------------------------------------------------------------------------
\* the character of a six-bit value
B64Char(v) ==
  IF v < 26 THEN 65 + v
  ELSE IF v < 52 THEN 97 + (v - 26)
  ELSE IF v < 62 THEN 48 + (v - 52)
  ELSE IF v = 62 THEN 43
  ELSE 47

\* the six-bit value of a character, 64 for a character outside the alphabet;
\* the decoder also accepts the URL-safe '-' and '_'
Unbase64(c) ==
  IF c >= 65 /\ c <= 90 THEN c - 65
  ELSE IF c >= 97 /\ c <= 122 THEN c - 97 + 26
  ELSE IF c >= 48 /\ c <= 57 THEN c - 48 + 52
  ELSE IF c = 43 \/ c = 45 THEN 62
  ELSE IF c = 47 \/ c = 95 THEN 63
  ELSE 64

\* bytes to padded base64 text
RECURSIVE B64Encode(_)
B64Encode(bs) ==
  LET n == Len(bs)
  IN  IF n = 0 THEN << >>
      ELSE IF n = 1
        THEN << B64Char(bs[1] \div 4), B64Char((bs[1] % 4) * 16), 61, 61 >>
      ELSE IF n = 2
        THEN << B64Char(bs[1] \div 4),
                B64Char((bs[1] % 4) * 16 + (bs[2] \div 16)),
                B64Char((bs[2] % 16) * 4), 61 >>
      ELSE << B64Char(bs[1] \div 4),
              B64Char((bs[1] % 4) * 16 + (bs[2] \div 16)),
              B64Char((bs[2] % 16) * 4 + (bs[3] \div 64)),
              B64Char(bs[3] % 64) >> \o B64Encode(Slice(bs, 4, n))

\* the six-bit values the lenient decoder reads: it stops at the first '='
\* and skips every character outside the alphabet
RECURSIVE B64Sextets(_)
B64Sextets(s) ==
  IF Len(s) = 0 \/ s[1] = 61 THEN << >>
  ELSE IF Unbase64(s[1]) = 64 THEN B64Sextets(Tail(s))
  ELSE << Unbase64(s[1]) >> \o B64Sextets(Tail(s))

\* six-bit values to bytes; a dangling single value yields no byte
RECURSIVE B64Bytes(_)
B64Bytes(v) ==
  LET n == Len(v)
  IN  IF n < 2 THEN << >>
      ELSE IF n = 2 THEN << v[1] * 4 + (v[2] \div 16) >>
      ELSE IF n = 3
        THEN << v[1] * 4 + (v[2] \div 16), (v[2] % 16) * 16 + (v[3] \div 4) >>
      ELSE << v[1] * 4 + (v[2] \div 16), (v[2] % 16) * 16 + (v[3] \div 4),
              (v[3] % 4) * 64 + v[4] >> \o B64Bytes(Slice(v, 5, n))

\* base64 text to bytes: never fails, whatever the text
B64Decode(s) == B64Bytes(B64Sextets(s))

\* ------------------------------------------------------------------------
\* Constants of the handler
\* ------------------------------------------------------------------------
COOKIE_NAME == Str(<< "h", "o", "s", "t", "i", "n", "g", "_", "a", "u", "t", "h" >>)

COOKIE_DOMAIN ==
  Str(<< ".", "h", "o", "s", "t", "i", "n", "g", ".", "n", "i", "p", "a", "l", "m",
         ".", "c", "o", "m" >>)

BASE_DOMAIN ==
  Str(<< ".", "h", "o", "s", "t", "i", "n", "g", ".", "n", "i", "p", "a", "l", "m",
         ".", "c", "o", "m" >>)

APEX_DOMAIN ==
  Str(<< "h", "o", "s", "t", "i", "n", "g", ".", "n", "i", "p", "a", "l", "m",
         ".", "c", "o", "m" >>)

\* '/_auth/callback'
CALLBACK_PATH ==
  Str(<< "/", "_", "a", "u", "t", "h", "/", "c", "a", "l", "l", "b", "a", "c", "k" >>)

\* '/' + errorFolder + '/404.html'
NOT_FOUND_URI ==
  Str(<< "/", "_", "e", "r", "r", "o", "r", "s", "/", "4", "0", "4", ".", "h", "t", "m", "l" >>)

\* 'index.html'
INDEX_HTML == Str(<< "i", "n", "d", "e", "x", ".", "h", "t", "m", "l" >>)

\* single characters the code names
Pipe == Ord("|")
Slash == Ord("/")
Dot == Ord(".")
DotDot == << Ord("."), Ord(".") >>

\* the absent value (undefined / null)
NULL == << -1 >>

\* ------------------------------------------------------------------------
\* Redirect-state codec
\* ------------------------------------------------------------------------
\* Buffer.from(`${host}|${path}`).toString('base64')
encodeState(host, path) == B64Encode(UTF8Encode(host \o << Pipe >> \o path))

\* mutant: `const [host, path] = decoded.split('|')`, the rest is dropped
decodeState_FirstPartOnly(state) ==
  LET decoded == UTF8Decode(B64Decode(state))
      parts == Split(decoded, Pipe)
      first == IF Len(parts) > 1 THEN parts[2] ELSE << >>
  IN  [ host |-> parts[1],
        path |-> IF first = << >> THEN << Slash >> ELSE first ]

\* decodeState as the runtime executes it: neither Buffer.from(_, 'base64') nor
\* toString('utf-8') throws for a string argument, so the catch branch (the
\* apex default) is never taken
decodeState(state) ==
  LET decoded == UTF8Decode(B64Decode(state))
      parts == Split(decoded, Pipe)
      joined == Join(Tail(parts), Pipe)
  IN  [ host |-> parts[1],
        path |-> IF joined = << >> THEN << Slash >> ELSE joined ]

\* ------------------------------------------------------------------------
\* URLSearchParams (application/x-www-form-urlencoded)
\* ------------------------------------------------------------------------
HexDigit(v) == IF v < 10 THEN 48 + v ELSE 65 + (v - 10)

\* value of a hexadecimal digit, -1 for any other character
HexVal(c) ==
  IF c >= 48 /\ c <= 57 THEN c - 48
  ELSE IF c >= 65 /\ c <= 70 THEN c - 65 + 10
  ELSE IF c >= 97 /\ c <= 102 THEN c - 97 + 10
  ELSE -1

IsAlnum(c) == (c >= 48 /\ c <= 57) \/ (c >= 65 /\ c <= 90) \/ (c >= 97 /\ c <= 122)

\* the serializer leaves ASCII alphanumerics and * - . _ alone, writes a space
\* as '+', and percent-encodes every other byte
FormEncodeByte(b) ==
  IF IsAlnum(b) \/ b \in {42, 45, 46, 95} THEN << b >>
  ELSE IF b = 32 THEN << 43 >>
  ELSE << 37, HexDigit(b \div 16), HexDigit(b % 16) >>

RECURSIVE FormEncodeBytes(_)
FormEncodeBytes(bs) ==
  IF Len(bs) = 0 THEN << >> ELSE FormEncodeByte(bs[1]) \o FormEncodeBytes(Tail(bs))

FormEncode(s) == FormEncodeBytes(UTF8Encode(s))

\* new URLSearchParams({...}).toString() for a sequence of <<name, value>>
RECURSIVE FormSerialize(_)
FormSerialize(pairs) ==
  IF Len(pairs) = 0 THEN << >>
  ELSE FormEncode(pairs[1][1]) \o << 61 >> \o FormEncode(pairs[1][2])
       \o (IF Len(pairs) = 1 THEN << >> ELSE << 38 >> \o FormSerialize(Tail(pairs)))

\* percent-decoding to bytes, after '+' has become a space
RECURSIVE FormDecodeBytes(_)
FormDecodeBytes(s) ==
  IF Len(s) = 0 THEN << >>
  ELSE IF s[1] = 43 THEN << 32 >> \o FormDecodeBytes(Tail(s))
  ELSE IF s[1] = 37 /\ Len(s) >= 3 /\ HexVal(s[2]) >= 0 /\ HexVal(s[3]) >= 0
    THEN << HexVal(s[2]) * 16 + HexVal(s[3]) >> \o FormDecodeBytes(Slice(s, 4, Len(s)))
  ELSE UTF8EncodeChar(s[1]) \o FormDecodeBytes(Tail(s))

FormDecode(s) == UTF8Decode(FormDecodeBytes(s))

\* one 'name=value' piece of a query string as <<name, value>>
FormPair(piece) ==
  LET i == IndexOf(piece, << 61 >>)
  IN  IF i = 0 THEN << FormDecode(piece), << >> >>
      ELSE << FormDecode(Slice(piece, 1, i - 1)),
              FormDecode(Slice(piece, i + 1, Len(piece))) >>

\* new URLSearchParams(querystring): the list of <<name, value>>
RECURSIVE FormPairs(_)
FormPairs(pieces) ==
  IF Len(pieces) = 0 THEN << >>
  ELSE IF Len(pieces[1]) = 0 THEN FormPairs(Tail(pieces))
  ELSE << FormPair(pieces[1]) >> \o FormPairs(Tail(pieces))

FormParse(qs) ==
  FormPairs(Split(IF Len(qs) > 0 /\ qs[1] = 63 THEN Tail(qs) ELSE qs, 38))

\* params.get(name): the first value under that name, NULL when there is none
ParamGet(pairs, name) ==
  LET hits == { i \in 1..Len(pairs) : pairs[i][1] = name }
  IN  IF hits = {} THEN NULL
      ELSE pairs[CHOOSE i \in hits : \A j \in hits : i <= j][2]

\* ------------------------------------------------------------------------
\* Cookies
\* ------------------------------------------------------------------------
\* parseCookies(cookieHeader)[wanted]: the value of the LAST well-formed
\* 'name=value' piece with that name, NULL when there is none
parseCookies(cookieHeader, wanted) ==
  IF cookieHeader = NULL \/ cookieHeader = << >> THEN NULL
  ELSE
    LET pieces == Split(cookieHeader, 59)
        fields(i) == Split(Trim(pieces[i]), 61)
        hits == { i \in 1..Len(pieces) :
                    /\ fields(i)[1] # << >>
                    /\ Len(fields(i)) > 1
                    /\ fields(i)[1] = wanted }
    IN  IF hits = {} THEN NULL
        ELSE Join(Tail(fields(CHOOSE i \in hits : \A j \in hits : j <= i)), 61)

\* `${COOKIE_NAME}=${idToken}; Domain=...; Path=/; Secure; HttpOnly; SameSite=Lax; Max-Age=${maxAge}`
createAuthCookie(idToken) ==
  COOKIE_NAME \o << 61 >> \o idToken
  \o Str(<< ";", " ", "D", "o", "m", "a", "i", "n", "=" >>) \o COOKIE_DOMAIN
  \o Str(<< ";", " ", "P", "a", "t", "h", "=", "/", ";", " ", "S", "e", "c", "u", "r", "e",
            ";", " ", "H", "t", "t", "p", "O", "n", "l", "y", ";", " ",
            "S", "a", "m", "e", "S", "i", "t", "e", "=", "L", "a", "x", ";", " ",
            "M", "a", "x", "-", "A", "g", "e", "=", "3", "6", "0", "0" >>)

\* ------------------------------------------------------------------------
\* Path router
\* ------------------------------------------------------------------------
\* \w of a JavaScript regular expression
IsWordChar(c) == IsAlnum(c) \/ c = 95

\* mutant: the pattern without its end anchor, /\.\w+/
hasExtension_Unanchored(uri) ==
  \E i \in 1..Len(uri) :
    /\ uri[i] = Dot
    /\ i < Len(uri)
    /\ IsWordChar(uri[i + 1])

\* /\.\w+$/.test(uri): some '.' is followed by one or more word characters
\* that run to the end of the string
hasExtension(uri) ==
  \E i \in 1..Len(uri) :
    /\ uri[i] = Dot
    /\ i < Len(uri)
    /\ \A j \in (i + 1)..Len(uri) : IsWordChar(uri[j])

\* the subdomain applySubdomainRouting derives from the host
Subdomain(host) ==
  IF EndsWith(host, BASE_DOMAIN) THEN ReplaceFirst(host, BASE_DOMAIN) ELSE << >>

\* mutant: the subdomain is validated for '/' only, not for '..'
applySubdomainRouting_NoDotDot(uri, host) ==
  LET subdomain == Subdomain(host)
  IN  IF ~EndsWith(host, BASE_DOMAIN) /\ host = APEX_DOMAIN THEN NOT_FOUND_URI
      ELSE IF subdomain = << >> \/ Includes(subdomain, << Slash >>)
        THEN NOT_FOUND_URI
      ELSE IF EndsWith(uri, << Slash >>)
        THEN << Slash >> \o subdomain \o uri \o INDEX_HTML
      ELSE IF ~hasExtension(uri)
        THEN << Slash >> \o subdomain \o uri \o << Slash >> \o INDEX_HTML
      ELSE << Slash >> \o subdomain \o uri

\* the value applySubdomainRouting leaves in request.uri
applySubdomainRouting(uri, host) ==
  LET subdomain == Subdomain(host)
  IN  IF ~EndsWith(host, BASE_DOMAIN) /\ host = APEX_DOMAIN THEN NOT_FOUND_URI
      ELSE IF subdomain = << >> \/ Includes(subdomain, << Slash >>)
              \/ Includes(subdomain, DotDot)
        THEN NOT_FOUND_URI
      ELSE IF EndsWith(uri, << Slash >>)
        THEN << Slash >> \o subdomain \o uri \o INDEX_HTML
      ELSE IF ~hasExtension(uri)
        THEN << Slash >> \o subdomain \o uri \o << Slash >> \o INDEX_HTML
      ELSE << Slash >> \o subdomain \o uri

\* `${v}` in a template literal, and a value handed to URLSearchParams: an
\* absent value reads as the text 'undefined'
Interpolate(v) == IF v = NULL THEN Str(<< "u", "n", "d", "e", "f", "i", "n", "e", "d" >>) ELSE v

\* ------------------------------------------------------------------------
\* Configuration (the JSON value stored in the parameter store)
\* ------------------------------------------------------------------------
\* JSON.parse of the literal null: falsy, every property read fails
ConfigNull ==
  [ truthy |-> FALSE, cognitoDomain |-> NULL, clientId |-> NULL, clientSecret |-> NULL,
    cognitoRegion |-> NULL, userPoolId |-> NULL, callbackUrl |-> NULL ]

\* the config bundle the deployment writes
ConfigA ==
  [ truthy |-> TRUE,
    cognitoDomain |-> Str(<< "a", "u", "t", "h", ".", "i", "d", "p", ".", "t", "e", "s", "t" >>),
    clientId |-> Str(<< "c", "l", "i", "e", "n", "t", "1" >>),
    clientSecret |-> Str(<< "s", "e", "c", "r", "e", "t", "1" >>),
    cognitoRegion |-> Str(<< "e", "u", "-", "w", "e", "s", "t", "-", "1" >>),
    userPoolId |-> Str(<< "p", "o", "o", "l", "1" >>),
    callbackUrl |-> Str(<< "h", "t", "t", "p", "s", ":", "/", "/", "h", "o", "s", "t", "i", "n",
         "g", ".", "n", "i", "p", "a", "l", "m", ".", "c", "o", "m", "/", "_",
         "a", "u", "t", "h", "/", "c", "a", "l", "l", "b", "a", "c", "k" >>) ]

\* JSON.parse of '{}': an object (truthy) with none of the six fields
ConfigPartial == [ConfigNull EXCEPT !.truthy = TRUE]

\* what one GetParameter call can come back with: the call rejects, the
\* parameter has no value, the value is not JSON, or it is the JSON text of
\* null, of an object without the fields, or of the config bundle
SsmReplies ==
  { [kind |-> "unreachable", value |-> ConfigNull],
    [kind |-> "novalue", value |-> ConfigNull],
    [kind |-> "notjson", value |-> ConfigNull],
    [kind |-> "json", value |-> ConfigNull],
    [kind |-> "json", value |-> ConfigPartial],
    [kind |-> "json", value |-> ConfigA] }

\* ------------------------------------------------------------------------
\* Tokens
\* ------------------------------------------------------------------------
\* `https://cognito-idp.${region}.amazonaws.com/${userPoolId}`
Issuer(region, userPoolId) ==
  Str(<< "h", "t", "t", "p", "s", ":", "/", "/", "c", "o", "g", "n", "i", "t",
         "o", "-", "i", "d", "p", "." >>) \o Interpolate(region) \o Str(<< ".", "a", "m", "a", "z", "o", "n", "a", "w", "s", ".", "c", "o", "m",
         "/" >>) \o Interpolate(userPoolId)

OtherIssuer == Str(<< "h", "t", "t", "p", "s", ":", "/", "/", "o", "t", "h", "e", "r", ".",
         "i", "d", "p", ".", "t", "e", "s", "t", "/", "p", "o", "o", "l", "9" >>)

TokenGood == Str(<< "t", "o", "k", ".", "g", "o", "o", "d" >>)
TokenExpired == Str(<< "t", "o", "k", ".", "e", "x", "p", "i", "r", "e", "d" >>)
TokenWrongAud == Str(<< "t", "o", "k", ".", "a", "u", "d" >>)
TokenWrongIss == Str(<< "t", "o", "k", ".", "i", "s", "s" >>)
TokenBadSig == Str(<< "t", "o", "k", ".", "s", "i", "g" >>)
TokenMalformed == Str(<< "g", "a", "r", "b", "a", "g", "e" >>)

\* the well-formed tokens and what they carry: the key set that signed them,
\* their iss and aud claims, and whether their exp has passed
TokenClaims ==
  { [tok |-> TokenGood, signedBy |-> Issuer(ConfigA.cognitoRegion, ConfigA.userPoolId),
     iss |-> Issuer(ConfigA.cognitoRegion, ConfigA.userPoolId),
     aud |-> ConfigA.clientId, expired |-> FALSE],
    [tok |-> TokenExpired, signedBy |-> Issuer(ConfigA.cognitoRegion, ConfigA.userPoolId),
     iss |-> Issuer(ConfigA.cognitoRegion, ConfigA.userPoolId),
     aud |-> ConfigA.clientId, expired |-> TRUE],
    [tok |-> TokenWrongAud, signedBy |-> Issuer(ConfigA.cognitoRegion, ConfigA.userPoolId),
     iss |-> Issuer(ConfigA.cognitoRegion, ConfigA.userPoolId),
     aud |-> Str(<< "c", "l", "i", "e", "n", "t", "2" >>), expired |-> FALSE],
    [tok |-> TokenWrongIss, signedBy |-> Issuer(ConfigA.cognitoRegion, ConfigA.userPoolId),
     iss |-> OtherIssuer,
     aud |-> ConfigA.clientId, expired |-> FALSE],
    [tok |-> TokenBadSig, signedBy |-> OtherIssuer,
     iss |-> Issuer(ConfigA.cognitoRegion, ConfigA.userPoolId),
     aud |-> ConfigA.clientId, expired |-> FALSE] }

\* jose.jwtVerify(token, keySet, {issuer, audience}) resolves or rejects;
\* keysOf is the issuer whose published keys the key set fetches and
\* keysFetched tells whether that fetch succeeded
jwtVerify(token, keysOf, keysFetched, issuer, audience) ==
  IF \E t \in TokenClaims :
       /\ t.tok = token
       /\ keysFetched
       /\ t.signedBy = keysOf
       /\ t.iss = issuer
       /\ t.aud = audience
       /\ ~t.expired
    THEN "resolves"
    ELSE "rejects"

\* ------------------------------------------------------------------------
\* Results of an invocation
\* ------------------------------------------------------------------------
NoResult ==
  [ kind |-> "none", status |-> "", uri |-> NULL, location |-> NULL, setCookie |-> << >> ]

\* `return request` after request.uri was assigned
Forward(uri) ==
  [ kind |-> "forward", status |-> "", uri |-> uri, location |-> NULL, setCookie |-> << >> ]

\* redirect(location, cookies)
redirect(location, cookies) ==
  [ kind |-> "response", status |-> "302", uri |-> NULL, location |-> location,
    setCookie |-> cookies ]

\* the synthesized error page
Error500 ==
  [ kind |-> "response", status |-> "500", uri |-> NULL, location |-> NULL,
    setCookie |-> << >> ]

\* the promise handler returns rejects: no response is produced
Thrown ==
  [ kind |-> "thrown", status |-> "", uri |-> NULL, location |-> NULL, setCookie |-> << >> ]

\* `https://${cognitoDomain}/login?${params.toString()}`
buildLoginUrl(cognitoDomain, clientId, callbackUrl, state) ==
  Str(<< "h", "t", "t", "p", "s", ":", "/", "/" >>) \o Interpolate(cognitoDomain)
  \o Str(<< "/", "l", "o", "g", "i", "n", "?" >>)
  \o FormSerialize(<< << Str(<< "c", "l", "i", "e", "n", "t", "_", "i", "d" >>), Interpolate(clientId) >>,
                      << Str(<< "r", "e", "s", "p", "o", "n", "s", "e", "_", "t", "y", "p", "e" >>), Str(<< "c", "o", "d", "e" >>) >>,
                      << Str(<< "s", "c", "o", "p", "e" >>), Str(<< "o", "p", "e", "n", "i", "d", " ", "e", "m", "a", "i", "l" >>) >>,
                      << Str(<< "r", "e", "d", "i", "r", "e", "c", "t", "_", "u", "r", "i" >>), Interpolate(callbackUrl) >>,
                      << Str(<< "s", "t", "a", "t", "e" >>), state >> >>)

\* mutant: the query string is left out of the remembered destination
OriginalPath_NoQuery(uri, querystring) == uri

\* uri + (querystring ? `?${querystring}` : '')
OriginalPath(uri, querystring) ==
  uri \o (IF querystring # << >> THEN << 63 >> \o querystring ELSE << >>)

\* the response of the "no valid token" branch
LoginRedirect(c, host, uri, querystring) ==
  redirect(buildLoginUrl(c.cognitoDomain, c.clientId, c.callbackUrl,
                         encodeState(host, OriginalPath(uri, querystring))), << >>)

\* the response of the callback branch once the exchange has returned tokens;
\* an absent id_token is interpolated as the text 'undefined'
CallbackSuccess(state, idToken) ==
  LET target == decodeState(IF state = NULL THEN << >> ELSE state)
  IN  redirect(Str(<< "h", "t", "t", "p", "s", ":", "/", "/" >>) \o target.host \o target.path,
               << createAuthCookie(Interpolate(idToken)) >>)

\* ------------------------------------------------------------------------
\* Requests the edge host passes to handler
\* ------------------------------------------------------------------------
HostTenant == Str(<< "a", "p", "p" >>) \o BASE_DOMAIN
HostForeign == Str(<< "e", "v", "i", "l", ".", "t", "e", "s", "t" >>)
HostPipe == Str(<< "a", "|", "b" >>) \o BASE_DOMAIN

\* request.headers.host?.[0]?.value || '': no Host header reads as ''
Hosts == { HostTenant, APEX_DOMAIN, HostForeign, HostPipe, << >> }

PageUris == { Str(<< "/" >>), Str(<< "/", "a", "p", "p", ".", "j", "s" >>) }

PageQueries == { << >>, Str(<< "x", "=", "1" >>) }

CookieOf(token) == COOKIE_NAME \o << 61 >> \o token

\* request.headers.cookie?.[0]?.value: NULL when there is no Cookie header
Cookies ==
  { NULL,
    CookieOf(TokenGood),
    Str(<< "s", "i", "d", "=", "1", ";", " " >>) \o CookieOf(TokenExpired),
    CookieOf(TokenWrongAud),
    CookieOf(TokenWrongIss),
    CookieOf(TokenBadSig),
    CookieOf(TokenMalformed),
    CookieOf(<< >>) }

PageRequests ==
  { [host |-> h, uri |-> u, querystring |-> q, cookie |-> c] :
      h \in Hosts, u \in PageUris, q \in PageQueries, c \in Cookies }

\* the state values a login redirect of this handler can have issued
IssuedStates ==
  { encodeState(h, OriginalPath(u, q)) : h \in Hosts, u \in PageUris, q \in PageQueries }

AuthCode == Str(<< "c", "1" >>)

\* what the identity provider (or anyone else) can put in the callback's
\* query string
CallbackQueries ==
  { FormSerialize(<< << Str(<< "c", "o", "d", "e" >>), AuthCode >>, << Str(<< "s", "t", "a", "t", "e" >>), s >> >>) : s \in IssuedStates }
  \cup { FormSerialize(<< << Str(<< "s", "t", "a", "t", "e" >>), s >> >>) : s \in { encodeState(HostTenant, Str(<< "/" >>)) } }
  \cup { Str(<< "c", "o", "d", "e", "=", "c", "1" >>), Str(<< "c", "o", "d", "e", "=", "c", "1", "&", "s", "t", "a", "t", "e", "=" >>), Str(<< "c", "o", "d", "e", "=", "c", "1", "&", "s", "t", "a", "t", "e", "=",
         "%", "2", "1", "%", "2", "1" >>),
         Str(<< "c", "o", "d", "e", "=", "&", "s", "t", "a", "t", "e", "=", "e", "A" >>), Str(<< "e", "r", "r", "o", "r", "=", "a", "c", "c", "e", "s", "s", "_", "d",
         "e", "n", "i", "e", "d" >>), << >> }

CallbackRequests ==
  { [host |-> h, uri |-> CALLBACK_PATH, querystring |-> q, cookie |-> c] :
      h \in { APEX_DOMAIN, HostTenant }, q \in CallbackQueries, c \in { NULL } }
  \cup { [host |-> APEX_DOMAIN, uri |-> CALLBACK_PATH,
          querystring |-> Str(<< "c", "o", "d", "e", "=", "c", "1" >>), cookie |-> CookieOf(TokenGood)] }

\* a host in which the base domain occurs twice
HostTwice == BASE_DOMAIN \o Str(<< "x" >>) \o BASE_DOMAIN

\* requests with an unusual uri or host, carrying a valid session
OddRequests ==
  { [host |-> HostTenant, uri |-> Str(<< "x" >>), querystring |-> << >>,
     cookie |-> CookieOf(TokenGood)],
    [host |-> HostTenant, uri |-> << >>, querystring |-> << >>,
     cookie |-> CookieOf(TokenGood)],
    [host |-> Str(<< "a", ".", ".", "b" >>) \o BASE_DOMAIN, uri |-> Str(<< "/" >>),
     querystring |-> << >>, cookie |-> CookieOf(TokenGood)],
    [host |-> HostTwice, uri |-> Str(<< "/" >>), querystring |-> << >>,
     cookie |-> CookieOf(TokenGood)],
    [host |-> HostTenant, uri |-> Str(<< "/", ".", ".", "/", "b" >>), querystring |-> << >>,
     cookie |-> CookieOf(TokenGood)] }

Requests == PageRequests \cup CallbackRequests \cup OddRequests

NoRequest == [host |-> NULL, uri |-> NULL, querystring |-> NULL, cookie |-> NULL]

\* what one POST to the token endpoint can come back with
ExchangeReplies ==
  { [kind |-> "network", idToken |-> NULL],
    [kind |-> "status", idToken |-> NULL],
    [kind |-> "notjson", idToken |-> NULL],
    [kind |-> "json", idToken |-> NULL],
    [kind |-> "json", idToken |-> TokenGood] }

\* ------------------------------------------------------------------------
\* State
\* ------------------------------------------------------------------------
Inv == 1..NumInv

VARIABLES
  config,      \* the module-level config cache
  jwks,        \* the module-level key-set cache: the issuer it fetches keys of
  pc,          \* per invocation: idle, ssm, exchange, verify, done
  req,         \* per invocation: the request being handled
  cfg,         \* per invocation: handler's local cfg
  result,      \* per invocation: what handler returned
  obs,         \* per invocation: the external calls and reads made so far
  remembered,  \* an earlier login redirect of this execution context
  call         \* one call of the state codec or of the path router

vars == << config, jwks, pc, req, cfg, result, obs, remembered, call >>

NoObs ==
  [ ssmFetches |-> 0, exchanges |-> 0, verifies |-> 0, cookieRead |-> FALSE,
    verified |-> "none", decoded |-> FALSE,
    ssm |-> "none",        \* how the parameter fetch came back
    exchange |-> "none",   \* how the token endpoint answered
    idToken |-> NULL ]     \* the id_token of that answer

NoMemory ==
  [ host |-> NULL, uri |-> NULL, querystring |-> NULL, hadCookie |-> FALSE,
    result |-> NoResult,
    cookie |-> NULL,        \* the Cookie header of the remembered request
    consumed |-> FALSE,     \* a callback with the remembered state has set the cookie
    idToken |-> NULL,       \* the id token that callback put in the cookie
    target |-> NULL,        \* the Location that callback redirected to
    failedLoad |-> FALSE ]  \* an earlier invocation ended in a failed config load

NoCall ==
  [ stage |-> "none", host |-> NULL, path |-> NULL, state |-> NULL,
    decoded |-> [host |-> NULL, path |-> NULL], routed |-> NULL ]

\* the state of a fresh execution context
ColdStart ==
  /\ config = ConfigNull
  /\ jwks = NULL
  /\ pc = [i \in Inv |-> "idle"]
  /\ req = [i \in Inv |-> NoRequest]
  /\ cfg = [i \in Inv |-> ConfigNull]
  /\ result = [i \in Inv |-> NoResult]
  /\ obs = [i \in Inv |-> NoObs]
  /\ remembered = NoMemory

Init ==
  /\ ColdStart
  /\ call = NoCall

\* ------------------------------------------------------------------------
\* handler
\* ------------------------------------------------------------------------
\* handler returns res
Finish(i, res, o) ==
  /\ pc' = [pc EXCEPT ![i] = "done"]
  /\ result' = [result EXCEPT ![i] = res]
  /\ obs' = [obs EXCEPT ![i] = o]

\* handler suspends at the await named by label
Await(i, label, o) ==
  /\ pc' = [pc EXCEPT ![i] = label]
  /\ result' = [result EXCEPT ![i] = NoResult]
  /\ obs' = [obs EXCEPT ![i] = o]

\* getJWKS: the key set is created for the issuer of the first call only
getJWKS(cached, userPoolId, region) ==
  IF cached = NULL THEN Issuer(region, userPoolId) ELSE cached

\* mutant: the exchange is started without looking at the code parameter
CallbackBranch_NoCodeCheck(i, r, c, o) ==
  /\ jwks' = jwks
  /\ Await(i, "exchange", [o EXCEPT !.exchanges = @ + 1])

\* the callback branch up to the token exchange
CallbackBranch(i, r, c, o) ==
  LET code == ParamGet(FormParse(r.querystring), Str(<< "c", "o", "d", "e" >>))
  IN  /\ jwks' = jwks
      /\ IF code = NULL \/ code = << >>
           THEN Finish(i, redirect(Str(<< "/" >>), << >>), o)
           ELSE Await(i, "exchange", [o EXCEPT !.exchanges = @ + 1])

\* the root-domain branch
ApexBranch(i, o) ==
  /\ jwks' = jwks
  /\ Finish(i, Forward(NOT_FOUND_URI), o)

\* the cookie check up to the token verification
SessionBranch(i, r, c, o) ==
  LET authToken == parseCookies(r.cookie, COOKIE_NAME)
  IN  IF authToken # NULL /\ authToken # << >>
        THEN /\ jwks' = getJWKS(jwks, c.userPoolId, c.cognitoRegion)
             /\ Await(i, "verify", [o EXCEPT !.cookieRead = TRUE, !.verifies = @ + 1])
        ELSE /\ jwks' = jwks
             /\ Finish(i, LoginRedirect(c, r.host, r.uri, r.querystring),
                       [o EXCEPT !.cookieRead = TRUE])

\* mutant: the root-domain test is missing
Route_NoApexTest(i, r, c, o) ==
  IF r.uri = CALLBACK_PATH THEN CallbackBranch(i, r, c, o)
  ELSE SessionBranch(i, r, c, o)

\* handler from the callback test down to its next await or return, with
\* the config c in hand
Route(i, r, c, o) ==
  IF r.uri = CALLBACK_PATH THEN CallbackBranch(i, r, c, o)
  ELSE IF r.host = APEX_DOMAIN THEN ApexBranch(i, o)
  ELSE SessionBranch(i, r, c, o)

\* mutant: loadConfig without `if (config) return config`
Start_AlwaysFetch(i, r) ==
  /\ pc[i] = "idle"
  /\ req' = [req EXCEPT ![i] = r]
  /\ UNCHANGED << config, remembered, call >>
  /\ cfg' = [cfg EXCEPT ![i] = ConfigNull]
  /\ jwks' = jwks
  /\ Await(i, "ssm", [NoObs EXCEPT !.ssmFetches = 1])

\* the edge host invokes handler with request r; loadConfig returns the
\* cached config or starts the parameter fetch
Start(i, r) ==
  /\ pc[i] = "idle"
  /\ req' = [req EXCEPT ![i] = r]
  /\ UNCHANGED << config, remembered, call >>
  /\ IF config.truthy
       THEN /\ cfg' = [cfg EXCEPT ![i] = config]
            /\ Route(i, r, config, NoObs)
       ELSE /\ cfg' = [cfg EXCEPT ![i] = ConfigNull]
            /\ jwks' = jwks
            /\ Await(i, "ssm", [NoObs EXCEPT !.ssmFetches = 1])

\* mutant: a fetch that fails leaves an empty object in the cache
SsmReturn_CachesFailure(i, reply) ==
  LET o == [obs[i] EXCEPT !.ssm = reply.kind]
  IN  /\ pc[i] = "ssm"
      /\ UNCHANGED << req, remembered, call >>
      /\ IF reply.kind # "json"
           THEN /\ config' = ConfigPartial
                /\ UNCHANGED << cfg, jwks >>
                /\ Finish(i, Error500, o)
           ELSE /\ config' = reply.value
                /\ cfg' = [cfg EXCEPT ![i] = reply.value]
                /\ IF reply.value.truthy
                     THEN Route(i, req[i], reply.value, o)
                     ELSE /\ jwks' = jwks
                          /\ Finish(i, Error500, o)

\* mutant: handler without `if (!cfg) throw`
SsmReturn_NoNullCheck(i, reply) ==
  LET o == [obs[i] EXCEPT !.ssm = reply.kind]
  IN  /\ pc[i] = "ssm"
      /\ UNCHANGED << req, remembered, call >>
      /\ IF reply.kind # "json"
           THEN /\ UNCHANGED << config, cfg, jwks >>
                /\ Finish(i, Error500, o)
           ELSE /\ config' = reply.value
                /\ cfg' = [cfg EXCEPT ![i] = reply.value]
                /\ Route(i, req[i], reply.value, o)

\* the parameter fetch of invocation i comes back
SsmReturn(i, reply) ==
  LET o == [obs[i] EXCEPT !.ssm = reply.kind]
  IN  /\ pc[i] = "ssm"
      /\ UNCHANGED << req, remembered, call >>
      /\ IF reply.kind # "json"
           THEN \* ssm.send rejected, no Parameter.Value, or JSON.parse threw
                /\ UNCHANGED << config, cfg, jwks >>
                /\ Finish(i, Error500, o)
           ELSE /\ config' = reply.value
                /\ cfg' = [cfg EXCEPT ![i] = reply.value]
                /\ IF reply.value.truthy
                     THEN Route(i, req[i], reply.value, o)
                     ELSE /\ jwks' = jwks
                          /\ Finish(i, Error500, o)

\* the token endpoint answers the exchange of invocation i
ExchangeReturn(i, reply) ==
  LET o == [obs[i] EXCEPT !.exchange = reply.kind, !.idToken = reply.idToken]
  IN  /\ pc[i] = "exchange"
      /\ UNCHANGED << config, jwks, req, cfg, remembered, call >>
      /\ IF reply.kind \in {"network", "notjson"}
           THEN \* fetch rejected, or response.json() rejected: nothing catches it
                Finish(i, Thrown, o)
         ELSE IF reply.kind = "status"
           THEN Finish(i, redirect(Str(<< "/" >>), << >>), o)
         ELSE Finish(i,
                     CallbackSuccess(ParamGet(FormParse(req[i].querystring), Str(<< "s", "t", "a", "t", "e" >>)),
                                     reply.idToken),
                     [o EXCEPT !.decoded = TRUE])

\* verifyToken(authToken, ...) of invocation i settles
\* mutant: verifyToken without its try/catch
verifyToken_NoCatch(token, keysOf, keysFetched, userPoolId, region, clientId) ==
  IF jwtVerify(token, keysOf, keysFetched, Issuer(region, userPoolId), clientId)
       = "resolves"
    THEN "true"
    ELSE "throws"

\* verifyToken: "true" when jwtVerify resolves; the catch turns every
\* rejection into "false" ("throws" would be an error leaving verifyToken)
verifyToken(token, keysOf, keysFetched, userPoolId, region, clientId) ==
  IF jwtVerify(token, keysOf, keysFetched, Issuer(region, userPoolId), clientId)
       = "resolves"
    THEN "true"
    ELSE "false"

\* mutant: only the first tenant's requests are forwarded
AfterVerify_OneTenantOnly(i, isValid) ==
  IF isValid = "true" /\ req[i].host = HostTenant
    THEN Finish(i, Forward(applySubdomainRouting(req[i].uri, req[i].host)),
                [obs[i] EXCEPT !.verified = isValid])
    ELSE Finish(i, LoginRedirect(cfg[i], req[i].host, req[i].uri, req[i].querystring),
                [obs[i] EXCEPT !.verified = isValid])

\* mutant: the request is forwarded whatever verifyToken returned
AfterVerify_ForwardUnverified(i, isValid) ==
  Finish(i, Forward(applySubdomainRouting(req[i].uri, req[i].host)),
         [obs[i] EXCEPT !.verified = isValid])

\* mutant: a failed verification is answered with the error page
AfterVerify_ErrorOnInvalid(i, isValid) ==
  IF isValid = "true"
    THEN Finish(i, Forward(applySubdomainRouting(req[i].uri, req[i].host)),
                [obs[i] EXCEPT !.verified = "true"])
    ELSE Finish(i, Error500, [obs[i] EXCEPT !.verified = "false"])

\* handler after `await verifyToken(...)`: nothing in handler catches
AfterVerify(i, isValid) ==
  IF isValid = "throws"
    THEN Finish(i, Thrown, obs[i])
  ELSE IF isValid = "true"
    THEN Finish(i, Forward(applySubdomainRouting(req[i].uri, req[i].host)),
                [obs[i] EXCEPT !.verified = "true"])
  ELSE Finish(i, LoginRedirect(cfg[i], req[i].host, req[i].uri, req[i].querystring),
              [obs[i] EXCEPT !.verified = "false"])

\* the verification of invocation i settles
VerifyReturn(i, keysFetched) ==
  /\ pc[i] = "verify"
  /\ UNCHANGED << config, jwks, req, cfg, remembered, call >>
  /\ AfterVerify(i, verifyToken(parseCookies(req[i].cookie, COOKIE_NAME), jwks,
                                keysFetched, cfg[i].userPoolId, cfg[i].cognitoRegion,
                                cfg[i].clientId))

\* a login redirect is worth remembering
Memorable(i) ==
  /\ result[i].status = "302"
  /\ req[i].uri # CALLBACK_PATH

\* the edge host takes the result of invocation i; the invocation is over
\* and its locals are gone (remembered is the observer's note of it)
Deliver(i, keep) ==
  /\ pc[i] = "done"
  /\ pc' = [pc EXCEPT ![i] = "idle"]
  /\ req' = [req EXCEPT ![i] = NoRequest]
  /\ cfg' = [cfg EXCEPT ![i] = ConfigNull]
  /\ result' = [result EXCEPT ![i] = NoResult]
  /\ obs' = [obs EXCEPT ![i] = NoObs]
  /\ remembered' =
       IF keep /\ Memorable(i)
         THEN [ NoMemory EXCEPT
                  !.host = req[i].host, !.uri = req[i].uri,
                  !.querystring = req[i].querystring,
                  !.hadCookie = parseCookies(req[i].cookie, COOKIE_NAME) # NULL,
                  !.result = result[i] ]
         ELSE remembered
  /\ UNCHANGED << config, jwks, call >>

\* ------------------------------------------------------------------------
\* Specification: one execution context serving one invocation at a time
\* ------------------------------------------------------------------------
Next ==
  \/ \E r \in Requests : Start(1, r)
  \/ \E reply \in SsmReplies : SsmReturn(1, reply)
  \/ \E reply \in ExchangeReplies : ExchangeReturn(1, reply)
  \/ \E keysFetched \in BOOLEAN : VerifyReturn(1, keysFetched)
  \/ \E keep \in BOOLEAN : Deliver(1, keep)

Spec == Init /\ [][Next]_vars

\* ------------------------------------------------------------------------
\* Specification of the state codec alone: encodeState and decodeState
\* applied to enumerated arguments
\* ------------------------------------------------------------------------
\* every text over alphabet of length at most n
Texts(alphabet, n) == UNION { [1..k -> alphabet] : k \in 0..n }

CodecHosts == { HostTenant, HostPipe, APEX_DOMAIN, << >> }

CodecPaths == Texts({ Slash, Pipe, Ord("a"), Ord("?") }, MaxCodecPathLen)

\* raw strings handed to decodeState: alphabet characters, padding, and
\* characters outside the base64 alphabet
RawStates == Texts({ Ord("e"), Ord("A"), Ord("="), Ord("!"), Ord("%") }, MaxStateLen)

InitCodec ==
  /\ ColdStart
  /\ call \in
       { [NoCall EXCEPT !.stage = "input", !.host = h, !.path = p] :
           h \in CodecHosts, p \in CodecPaths }
       \cup { [NoCall EXCEPT !.stage = "encoded", !.state = s] : s \in RawStates }

EncodeCall ==
  /\ call.stage = "input"
  /\ call' = [call EXCEPT !.stage = "encoded", !.state = encodeState(call.host, call.path)]
  /\ UNCHANGED << config, jwks, pc, req, cfg, result, obs, remembered >>

DecodeCall ==
  /\ call.stage = "encoded"
  /\ call' = [call EXCEPT !.stage = "decoded", !.decoded = decodeState(call.state)]
  /\ UNCHANGED << config, jwks, pc, req, cfg, result, obs, remembered >>

NextCodec == EncodeCall \/ DecodeCall

SpecCodec == InitCodec /\ [][NextCodec]_vars

\* ------------------------------------------------------------------------
\* Specification of the path router alone: applySubdomainRouting applied
\* to enumerated hosts and paths
\* ------------------------------------------------------------------------
HostTest == Str(<< "t", "e", "s", "t" >>) \o BASE_DOMAIN

RouterHosts ==
  { HostTenant, HostTest, APEX_DOMAIN, HostForeign, HostPipe, << >>,
    BASE_DOMAIN,
    Str(<< "a", "/", "b" >>) \o BASE_DOMAIN,
    Str(<< "a", ".", ".", "b" >>) \o BASE_DOMAIN,
    BASE_DOMAIN \o Str(<< "x" >>) \o BASE_DOMAIN,
    Str(<< "a", "." >>) \o BASE_DOMAIN \o Str(<< "b" >>) \o BASE_DOMAIN }

RouterPaths ==
  Texts({ Slash, Dot, Ord("a"), Ord("-") }, MaxPathLen)
  \cup { Str(<< "/", "s", "o", "m", "e", "r", "o", "u", "t", "e" >>), Str(<< "/", "a", "s", "s", "e", "t", "s", "/", "a", "p", "p", ".", "j", "s" >>), Str(<< "/", "d", "a", "s", "h", "b", "o", "a", "r", "d" >>) }

InitRouter ==
  /\ ColdStart
  /\ call \in
       { [NoCall EXCEPT !.stage = "input", !.host = h, !.path = p] :
           h \in RouterHosts, p \in RouterPaths }

RouteCall ==
  /\ call.stage = "input"
  /\ call' = [call EXCEPT !.stage = "routed",
                          !.routed = applySubdomainRouting(call.path, call.host)]
  /\ UNCHANGED << config, jwks, pc, req, cfg, result, obs, remembered >>

NextRouter == RouteCall

SpecRouter == InitRouter /\ [][NextRouter]_vars

\* ------------------------------------------------------------------------
\* Vocabulary of the properties
\* ------------------------------------------------------------------------
StartsWith(s, prefix) == Len(prefix) <= Len(s) /\ Slice(s, 1, Len(prefix)) = prefix

\* the request carries a hosting_auth cookie
HasAuthCookie(r) == parseCookies(r.cookie, COOKIE_NAME) # NULL

\* a request that is neither for the callback path nor for the apex host
IsTenantRequest(r) == r.uri # CALLBACK_PATH /\ r.host # APEX_DOMAIN

\* the query string of a URL: what follows its first '?'
QueryOf(url) == Slice(url, IndexOf(url, << 63 >>) + 1, Len(url))

\* res is a 302 to the hosted login page of config c, with no cookie set
IsLoginRedirect(res, c) ==
  /\ res.kind = "response"
  /\ res.status = "302"
  /\ res.setCookie = << >>
  /\ StartsWith(res.location,
                Str(<< "h", "t", "t", "p", "s", ":", "/", "/" >>)
                \o Interpolate(c.cognitoDomain)
                \o Str(<< "/", "l", "o", "g", "i", "n", "?" >>))

\* res is the callback's set-cookie redirect
IsSetCookieRedirect(res) ==
  /\ res.kind = "response"
  /\ res.status = "302"
  /\ Len(res.setCookie) = 1
  /\ StartsWith(res.setCookie[1], COOKIE_NAME \o << 61 >>)

\* ------------------------------------------------------------------------
\* C1: a request is forwarded with a tenant-prefixed URI (any forwarded URI
\* other than /_errors/404.html) only if it carried a hosting_auth cookie and
\* verifyToken returned true for that cookie's value in the same invocation.
\* ------------------------------------------------------------------------
C1_ForwardOnlyVerified ==
  \A i \in Inv :
    (pc[i] = "done" /\ result[i].kind = "forward" /\ result[i].uri # NOT_FOUND_URI)
      => /\ HasAuthCookie(req[i])
         /\ obs[i].verifies = 1
         /\ obs[i].verified = "true"
         /\ jwtVerify(parseCookies(req[i].cookie, COOKIE_NAME), jwks, TRUE,
                      Issuer(cfg[i].cognitoRegion, cfg[i].userPoolId),
                      cfg[i].clientId) = "resolves"

C1_Witness ==
  \E i \in Inv :
    /\ pc[i] = "done"
    /\ result[i].kind = "forward"
    /\ result[i].uri # NOT_FOUND_URI
    /\ remembered # NoMemory

\* ------------------------------------------------------------------------
\* C2: with config loaded, a request that is neither for the callback path
\* nor for the apex host ends in exactly one of two outcomes: forwarded when
\* the session cookie is present and verifyToken is true, otherwise a 302 to
\* the login URL; never an error.
\* ------------------------------------------------------------------------
C2_ForwardOrLogin ==
  \A i \in Inv :
    (pc[i] = "done" /\ IsTenantRequest(req[i]) /\ cfg[i].truthy)
      => IF HasAuthCookie(req[i]) /\ obs[i].verified = "true"
           THEN result[i].kind = "forward" /\ ~IsLoginRedirect(result[i], cfg[i])
           ELSE IsLoginRedirect(result[i], cfg[i])

C2_Witness ==
  \E i \in Inv :
    /\ pc[i] = "done"
    /\ IsTenantRequest(req[i])
    /\ cfg[i].truthy
    /\ parseCookies(req[i].cookie, COOKIE_NAME) = TokenExpired
    /\ obs[i].verified = "false"
    /\ IsLoginRedirect(result[i], cfg[i])

\* ------------------------------------------------------------------------
\* C3: two requests that differ only in that one has no session cookie and
\* the other has one whose verification fails get the same response (the
\* same 302, the same login Location, the same state); and verifyToken never
\* lets an error escape, every failure becomes false.
\* ------------------------------------------------------------------------
C3_FailedSameAsAbsent ==
  \A i \in Inv :
    /\ ( /\ pc[i] = "done"
         /\ remembered # NoMemory
         /\ req[i].host = remembered.host
         /\ req[i].uri = remembered.uri
         /\ req[i].querystring = remembered.querystring
         /\ HasAuthCookie(req[i]) # remembered.hadCookie
         /\ obs[i].verified # "true" )
         => /\ result[i] = remembered.result
            /\ result[i].status = "302"
    /\ (pc[i] = "done" /\ obs[i].verifies > 0)
         => /\ obs[i].verified \in {"true", "false"}
            /\ result[i].kind # "thrown"

C3_Witness ==
  \E i \in Inv :
    /\ pc[i] = "done"
    /\ remembered # NoMemory
    /\ ~remembered.hadCookie
    /\ req[i].host = remembered.host
    /\ req[i].uri = remembered.uri
    /\ req[i].querystring = remembered.querystring
    /\ parseCookies(req[i].cookie, COOKIE_NAME) = TokenBadSig
    /\ obs[i].verified = "false"

\* ------------------------------------------------------------------------
\* C4: the login redirect carries response_type=code, scope 'openid email',
\* redirect_uri = the configured callback URL and a state; and a later
\* callback with that state and a code whose exchange succeeds is answered
\* with a 302 to exactly https://<host><uri>[?<querystring>] with a
\* Set-Cookie for the session cookie.
\* ------------------------------------------------------------------------
\* the login redirect of a finished invocation has the stated parameters
LoginRedirectWellFormed(i) ==
  (pc[i] = "done" /\ IsTenantRequest(req[i]) /\ result[i].status = "302")
    => LET params == FormParse(QueryOf(result[i].location))
       IN  /\ IsLoginRedirect(result[i], cfg[i])
           /\ ParamGet(params, Str(<< "r", "e", "s", "p", "o", "n", "s", "e", "_", "t", "y", "p", "e" >>)) = Str(<< "c", "o", "d", "e" >>)
           /\ ParamGet(params, Str(<< "s", "c", "o", "p", "e" >>)) = Str(<< "o", "p", "e", "n", "i", "d", " ", "e", "m", "a", "i", "l" >>)
           /\ ParamGet(params, Str(<< "r", "e", "d", "i", "r", "e", "c", "t", "_", "u", "r", "i" >>)) = Interpolate(cfg[i].callbackUrl)
           /\ ParamGet(params, Str(<< "c", "l", "i", "e", "n", "t", "_", "i", "d" >>)) = Interpolate(cfg[i].clientId)
           /\ ParamGet(params, Str(<< "s", "t", "a", "t", "e" >>)) # NULL

\* invocation i is a callback whose exchange succeeded and whose state is
\* the one the remembered login redirect issued
ResumesRemembered(i) ==
  /\ pc[i] = "done"
  /\ remembered # NoMemory
  /\ req[i].uri = CALLBACK_PATH
  /\ obs[i].exchanges = 1
  /\ result[i].kind = "response"
  /\ result[i].setCookie # << >>
  /\ ParamGet(FormParse(req[i].querystring), Str(<< "s", "t", "a", "t", "e" >>))
       = ParamGet(FormParse(QueryOf(remembered.result.location)), Str(<< "s", "t", "a", "t", "e" >>))

\* the callback lands on the remembered request
LandsOnOriginal(i) ==
  /\ IsSetCookieRedirect(result[i])
  /\ result[i].location =
       Str(<< "h", "t", "t", "p", "s", ":", "/", "/" >>) \o remembered.host \o remembered.uri
       \o (IF remembered.querystring # << >>
             THEN << 63 >> \o remembered.querystring ELSE << >>)

RoundTrip == call.stage = "decoded" /\ call.host # NULL

\* C5 as stated: the round trip is exact, the empty path included
C5_Original ==
  (RoundTrip /\ ~Includes(call.host, << Pipe >>))
    => call.decoded = [host |-> call.host, path |-> call.path]

\* C5 as amended: the round trip is exact for every non-empty path, and the
\* empty path comes back as '/'
C5_RoundTrip ==
  (RoundTrip /\ ~Includes(call.host, << Pipe >>))
    => call.decoded =
         [host |-> call.host,
          path |-> IF call.path = << >> THEN << Slash >> ELSE call.path]

C5_Witness ==
  /\ RoundTrip
  /\ call.host = HostTenant
  /\ Len(call.path) = MaxCodecPathLen
  /\ call.path[2] = Pipe
  /\ call.path[3] = Pipe
  /\ call.decoded.path = call.path

\* ------------------------------------------------------------------------
\* C6: for every malformed input string (any string that is not an output
\* of encodeState, the empty string included) decodeState returns the fixed
\* default (apex host, '/').
\* ------------------------------------------------------------------------
\* s is something encodeState can have produced: canonical base64 of UTF-8
\* text that contains the delimiter
IsEncoderOutput(s) ==
  LET text == UTF8Decode(B64Decode(s))
  IN  Includes(text, << Pipe >>) /\ B64Encode(UTF8Encode(text)) = s

C6_MalformedGivesDefault ==
  (call.stage = "decoded" /\ call.host = NULL /\ ~IsEncoderOutput(call.state))
    => call.decoded = [host |-> APEX_DOMAIN, path |-> << Slash >>]

\* ------------------------------------------------------------------------
\* C7: for a host with a valid tenant prefix, exactly one of three rules
\* applies to every path: ending in '/' -> /<prefix><path>index.html; not
\* ending in '/' and last segment with a trailing dot-extension ->
\* /<prefix><path>; every other path -> /<prefix><path>/index.html.
\* ------------------------------------------------------------------------
\* the part of the path after its last '/'
LastSegment(path) ==
  LET slashes == { k \in 1..Len(path) : path[k] = Slash }
  IN  IF slashes = {} THEN path
      ELSE Slice(path, (CHOOSE k \in slashes : \A m \in slashes : m <= k) + 1, Len(path))

\* the segment ends in a dot followed by one or more word characters
HasDotExtension(segment) ==
  \E k \in 1..(Len(segment) - 1) :
    /\ segment[k] = Dot
    /\ \A m \in (k + 1)..Len(segment) : IsWordChar(segment[m])

\* the host names a tenant: the router derives a usable prefix from it
HasValidPrefix(host) ==
  /\ EndsWith(host, BASE_DOMAIN)
  /\ Subdomain(host) # << >>
  /\ ~Includes(Subdomain(host), << Slash >>)
  /\ ~Includes(Subdomain(host), DotDot)

C8_RouteServesRootIndex ==
  ( /\ call.stage = "routed"
    /\ call.host = HostTest
    /\ StartsWith(call.path, << Slash >>)
    /\ ~EndsWith(call.path, << Slash >>)
    /\ ~HasDotExtension(LastSegment(call.path)) )
    => call.routed = Str(<< "/", "t", "e", "s", "t", "/", "i", "n", "d", "e", "x", ".", "h", "t",
         "m", "l" >>)

ApexNotFound(i) ==
  /\ result[i] = Forward(NOT_FOUND_URI)
  /\ ~obs[i].cookieRead
  /\ obs[i].verifies = 0
  /\ obs[i].verified = "none"

\* C10 as stated: every apex request off the callback path is forwarded to
\* the not-found page with the session check bypassed
C10_Original ==
  \A i \in Inv :
    (pc[i] = "done" /\ req[i].host = APEX_DOMAIN /\ req[i].uri # CALLBACK_PATH)
      => ApexNotFound(i)

\* C10 as amended: the same, for invocations in which the config was loaded
C10_ApexBypassesSession ==
  \A i \in Inv :
    ( /\ pc[i] = "done"
      /\ req[i].host = APEX_DOMAIN
      /\ req[i].uri # CALLBACK_PATH
      /\ cfg[i].truthy )
      => ApexNotFound(i)

C10_Witness ==
  \E i \in Inv :
    /\ pc[i] = "done"
    /\ req[i].host = APEX_DOMAIN
    /\ req[i].uri # CALLBACK_PATH
    /\ req[i].cookie = CookieOf(TokenGood)
    /\ cfg[i].truthy
    /\ ApexNotFound(i)

\* ------------------------------------------------------------------------
\* C11: exchangeCodeForTokens returns null when the token endpoint answers
\* with a non-success status, when the network call fails, and when the body
\* has not the expected shape (not JSON, or no id_token); in each case the
\* callback is answered with a 302 to '/' and no Set-Cookie.
\* ------------------------------------------------------------------------
\* the exchange of invocation i did not yield an id token
ExchangeFailed(i) ==
  /\ obs[i].exchanges = 1
  /\ \/ obs[i].exchange \in {"status", "network", "notjson"}
     \/ obs[i].exchange = "json" /\ obs[i].idToken = NULL

C11_FailedExchangeRedirectsToRoot ==
  \A i \in Inv :
    (pc[i] = "done" /\ req[i].uri = CALLBACK_PATH /\ ExchangeFailed(i))
      => result[i] = redirect(Str(<< "/" >>), << >>)

\* ------------------------------------------------------------------------
\* C12: every invocation, whatever the outcome of the secret fetch, the
\* key-set verification and the token exchange, returns either a forwarded
\* request or a well-formed HTTP response; no failure escapes handler.
\* ------------------------------------------------------------------------
C12_AlwaysAResponse ==
  \A i \in Inv :
    pc[i] = "done"
      => \/ result[i].kind = "forward" /\ result[i].uri # NULL
         \/ /\ result[i].kind = "response"
            /\ \/ result[i].status = "302" /\ result[i].location # NULL
               \/ result[i].status = "500"

\* ------------------------------------------------------------------------
\* C13: config loading comes first: when loadConfig throws or yields no
\* config, handler returns the 500 response for every request (callback and
\* apex requests included), attempts neither a token exchange nor a token
\* verification, and does not forward the request.
\* ------------------------------------------------------------------------
\* loadConfig of invocation i threw or returned a falsy config
LoadFailed(i) ==
  /\ obs[i].ssmFetches = 1
  /\ \/ obs[i].ssm \in {"unreachable", "novalue", "notjson"}
     \/ obs[i].ssm = "json" /\ ~cfg[i].truthy

C13_ConfigFailureGives500 ==
  \A i \in Inv :
    /\ (pc[i] = "done" /\ LoadFailed(i))
         => /\ result[i] = Error500
            /\ obs[i].exchanges = 0
            /\ obs[i].verifies = 0
            /\ ~obs[i].cookieRead
            /\ ~obs[i].decoded
    /\ pc[i] \in {"exchange", "verify"} => cfg[i].truthy
    /\ (pc[i] = "done" /\ result[i] # Error500) => cfg[i].truthy

C13_Witness ==
  \E i \in Inv :
    /\ pc[i] = "done"
    /\ LoadFailed(i)
    /\ obs[i].ssm = "json"
    /\ req[i].host = APEX_DOMAIN
    /\ req[i].uri = CALLBACK_PATH
    /\ ParamGet(FormParse(req[i].querystring), Str(<< "c", "o", "d", "e" >>)) = AuthCode
    /\ req[i].cookie = CookieOf(TokenGood)
    /\ result[i] = Error500

\* ------------------------------------------------------------------------
\* C14: once an invocation has loaded the config, every later loadConfig
\* call in the execution context returns that same value and issues no
\* request to the secret store.
\* ------------------------------------------------------------------------
C14_CachedConfigReused ==
  [][ config.truthy
        => /\ config' = config
           /\ \A i \in Inv :
                (pc[i] = "idle" /\ pc'[i] # "idle")
                  => /\ cfg'[i] = config
                     /\ pc'[i] # "ssm"
                     /\ obs'[i].ssmFetches = 0
                     /\ obs'[i].ssm = "none" ]_vars

C14_Witness ==
  \E i \in Inv :
    /\ pc[i] = "done"
    /\ remembered # NoMemory
    /\ config = ConfigA
    /\ cfg[i] = ConfigA
    /\ obs[i].ssmFetches = 0

\* ------------------------------------------------------------------------
\* C15: loadConfig fails and caches nothing when the secret store is
\* unreachable, returns no value, or returns a value that does not parse
\* into the expected shape; valid JSON that lacks the six fields is rejected
\* rather than cached and used.
\* ------------------------------------------------------------------------
\* c has all of cognitoDomain, clientId, clientSecret, cognitoRegion,
\* userPoolId, callbackUrl
IsConfigBundle(c) ==
  /\ c.cognitoDomain # NULL
  /\ c.clientId # NULL
  /\ c.clientSecret # NULL
  /\ c.cognitoRegion # NULL
  /\ c.userPoolId # NULL
  /\ c.callbackUrl # NULL

C15_OnlyBundleCached ==
  /\ config.truthy => IsConfigBundle(config)
  /\ \A i \in Inv : (pc[i] # "idle" /\ cfg[i].truthy) => IsConfigBundle(cfg[i])

\* ------------------------------------------------------------------------
\* C16: the OAuth callback is handled only on the apex host: a request for
\* /_auth/callback on any other host is not processed as a callback (no code
\* exchange, no Set-Cookie, no redirect to the decoded state).
\* ------------------------------------------------------------------------
C16_CallbackOnlyOnApex ==
  \A i \in Inv :
    (pc[i] # "idle" /\ req[i].uri = CALLBACK_PATH /\ req[i].host # APEX_DOMAIN)
      => /\ pc[i] # "exchange"
         /\ obs[i].exchanges = 0
         /\ ~obs[i].decoded
         /\ result[i].setCookie = << >>

\* ------------------------------------------------------------------------
\* C17: a Set-Cookie header appears only on the callback-success outcome;
\* its value is the id token the exchange returned, unmodified, under the
\* name hosting_auth with Domain=.hosting.nipalm.com, Path=/, Secure,
\* HttpOnly, SameSite=Lax and Max-Age=3600.
\* ------------------------------------------------------------------------
\* the attributes the session cookie is to carry
SessionCookieAttributes ==
  Str(<< ";", " ", "D", "o", "m", "a", "i", "n", "=", ".", "h", "o", "s", "t",
         "i", "n", "g", ".", "n", "i", "p", "a", "l", "m", ".", "c", "o", "m",
         ";", " ", "P", "a", "t", "h", "=", "/", ";", " ", "S", "e", "c", "u",
         "r", "e", ";", " ", "H", "t", "t", "p", "O", "n", "l", "y", ";", " ",
         "S", "a", "m", "e", "S", "i", "t", "e", "=", "L", "a", "x", ";", " ",
         "M", "a", "x", "-", "A", "g", "e", "=", "3", "6", "0", "0" >>)

C17_SetCookieIsIdToken ==
  \A i \in Inv :
    result[i].setCookie # << >>
      => /\ pc[i] = "done"
         /\ req[i].uri = CALLBACK_PATH
         /\ result[i].status = "302"
         /\ obs[i].exchange = "json"
         /\ obs[i].idToken # NULL
         /\ result[i].setCookie =
              << Str(<< "h", "o", "s", "t", "i", "n", "g", "_", "a", "u", "t", "h", "=" >>) \o obs[i].idToken
                 \o SessionCookieAttributes >>

\* ------------------------------------------------------------------------
\* C18: for every host that ends with '.hosting.nipalm.com' the tenant
\* prefix the router uses is the host with that trailing suffix removed,
\* also when the base domain occurs earlier in the host as well.
\* ------------------------------------------------------------------------
\* the host without its last Len(BASE_DOMAIN) characters
StripSuffix(host) == Slice(host, 1, Len(host) - Len(BASE_DOMAIN))

C18_PrefixIsHostMinusSuffix ==
  (call.stage = "routed" /\ EndsWith(call.host, BASE_DOMAIN))
    => \/ call.routed = NOT_FOUND_URI
       \/ StartsWith(call.routed, << Slash >> \o StripSuffix(call.host) \o call.path)

\* ------------------------------------------------------------------------
\* C19: every URI handler forwards is /_errors/404.html or has as its first
\* path segment the tenant prefix derived from the host, a prefix that is
\* non-empty and contains neither '/' nor '..'; for every request path,
\* also one that does not start with '/'.
\* ------------------------------------------------------------------------
\* the first segment of a path that starts with '/'
FirstSegment(uri) ==
  LET rest == Tail(uri)
      k == IndexOf(rest, << Slash >>)
  IN  IF k = 0 THEN rest ELSE Slice(rest, 1, k - 1)

\* the forwarded URI lies under the prefix the router derives from the host
UnderTenantPrefix(i) ==
  /\ StartsWith(result[i].uri, << Slash >>)
  /\ FirstSegment(result[i].uri) = Subdomain(req[i].host)
  /\ Subdomain(req[i].host) # << >>
  /\ ~Includes(Subdomain(req[i].host), << Slash >>)
  /\ ~Includes(Subdomain(req[i].host), DotDot)

C19_ForwardedUnderPrefix ==
  \A i \in Inv :
    (pc[i] = "done" /\ result[i].kind = "forward")
      => (result[i].uri = NOT_FOUND_URI \/ UnderTenantPrefix(i))

\* ------------------------------------------------------------------------
\* C20: a request for the callback path is never passed to verifyToken and
\* never forwarded, whatever cookie it carries; with the code parameter
\* absent or empty the answer is a 302 to '/' and the token endpoint is not
\* contacted; the state is decoded only after the exchange has succeeded.
\* ------------------------------------------------------------------------
\* the callback request of invocation i has no usable code parameter
NoCode(i) ==
  ParamGet(FormParse(req[i].querystring), Str(<< "c", "o", "d", "e" >>)) \in { NULL, << >> }

StateParam(r) == ParamGet(FormParse(r.querystring), Str(<< "s", "t", "a", "t", "e" >>))

\* the state value the remembered login redirect issued
IssuedState(m) == ParamGet(FormParse(QueryOf(m.result.location)), Str(<< "s", "t", "a", "t", "e" >>))

\* invocation i is a callback that answered with the set-cookie redirect for
\* the state of the remembered login redirect
CompletesRemembered(i) ==
  /\ remembered.result # NoResult
  /\ req[i].uri = CALLBACK_PATH
  /\ IsSetCookieRedirect(result[i])
  /\ StateParam(req[i]) = IssuedState(remembered)

\* the requests of the flow: two unauthenticated page requests, the same
\* requests as a browser holding the session cookie sends them, and callbacks
FlowRequests ==
  { [host |-> h, uri |-> Str(<< "/" >>), querystring |-> << >>, cookie |-> c] :
      h \in { HostTenant, HostForeign }, c \in { NULL, CookieOf(TokenGood) } }
  \cup
  { [host |-> APEX_DOMAIN, uri |-> CALLBACK_PATH, cookie |-> NULL,
     querystring |-> FormSerialize(<< << Str(<< "c", "o", "d", "e" >>), AuthCode >>, << Str(<< "s", "t", "a", "t", "e" >>), s >> >>)] :
      s \in { encodeState(HostTenant, Str(<< "/" >>)), encodeState(HostForeign, Str(<< "/" >>)),
              encodeState(HostTenant, Str(<< "/", "a", "p", "p", ".", "j", "s" >>)) } }

\* the edge host takes the result of invocation i; the observer notes a
\* failed config load, a login redirect, and the callback that completes the
\* remembered login redirect
Observe(i) ==
  /\ pc[i] = "done"
  /\ pc' = [pc EXCEPT ![i] = "idle"]
  /\ req' = [req EXCEPT ![i] = NoRequest]
  /\ cfg' = [cfg EXCEPT ![i] = ConfigNull]
  /\ result' = [result EXCEPT ![i] = NoResult]
  /\ obs' = [obs EXCEPT ![i] = NoObs]
  /\ remembered' =
       IF LoadFailed(i)
         THEN [ remembered EXCEPT !.failedLoad = TRUE ]
       ELSE IF Memorable(i)
         THEN [ NoMemory EXCEPT
                  !.host = req[i].host, !.uri = req[i].uri,
                  !.querystring = req[i].querystring,
                  !.hadCookie = parseCookies(req[i].cookie, COOKIE_NAME) # NULL,
                  !.result = result[i],
                  !.cookie = req[i].cookie,
                  !.failedLoad = remembered.failedLoad ]
       ELSE IF CompletesRemembered(i)
         THEN [ remembered EXCEPT !.consumed = TRUE, !.idToken = obs[i].idToken,
                                  !.target = result[i].location ]
       ELSE remembered
  /\ UNCHANGED << config, jwks, call >>

NextFlow ==
  \/ \E r \in FlowRequests : Start(1, r)
  \/ \E reply \in SsmReplies : SsmReturn(1, reply)
  \/ \E reply \in ExchangeReplies : ExchangeReturn(1, reply)
  \/ \E keysFetched \in BOOLEAN : VerifyReturn(1, keysFetched)
  \/ Observe(1)

SpecFlow == Init /\ [][NextFlow]_vars

\* ------------------------------------------------------------------------
\* Specification of invocations that overlap in one execution context: each
\* await of handler is a point where another invocation can run
\* ------------------------------------------------------------------------
ConcurrentRequests ==
  { [host |-> HostTenant, uri |-> Str(<< "/" >>), querystring |-> << >>, cookie |-> NULL],
    [host |-> HostTenant, uri |-> Str(<< "/" >>), querystring |-> << >>,
     cookie |-> CookieOf(TokenGood)],
    [host |-> APEX_DOMAIN, uri |-> CALLBACK_PATH, querystring |-> Str(<< "c", "o", "d", "e", "=", "c", "1" >>),
     cookie |-> NULL] }

\* the parameter fetch fails, or returns one of two stored values
ConcurrentSsmReplies ==
  { [kind |-> "unreachable", value |-> ConfigNull],
    [kind |-> "json", value |-> ConfigPartial],
    [kind |-> "json", value |-> ConfigA] }

ConcurrentExchangeReplies ==
  { [kind |-> "status", idToken |-> NULL],
    [kind |-> "json", idToken |-> TokenGood] }

NextConcurrent ==
  \E i \in Inv :
    \/ \E r \in ConcurrentRequests : Start(i, r)
    \/ \E reply \in ConcurrentSsmReplies : SsmReturn(i, reply)
    \/ \E reply \in ConcurrentExchangeReplies : ExchangeReturn(i, reply)
    \/ VerifyReturn(i, TRUE)
    \/ Deliver(i, FALSE)

SpecConcurrent == Init /\ [][NextConcurrent]_vars

\* ------------------------------------------------------------------------
\* Specification of getJWKS alone: calls with enumerated arguments in one
\* execution context
\* ------------------------------------------------------------------------
JwksPools == { ConfigA.userPoolId, Str(<< "p", "o", "o", "l", "2" >>), Str(<< "p", "o", "o", "l", "3" >>), NULL }

JwksRegions == { ConfigA.cognitoRegion, Str(<< "u", "s", "-", "e", "a", "s", "t", "-", "1" >>), Str(<< "e", "u", "-", "n", "o", "r", "t", "h", "-", "1" >>), NULL }

\* getJWKS(userPoolId, region) is called; call notes the arguments (host has
\* the userPoolId, path the region) and the issuer of the key set returned
JwksCall(userPoolId, region) ==
  /\ jwks' = getJWKS(jwks, userPoolId, region)
  /\ call' = [NoCall EXCEPT !.stage = "jwks", !.host = userPoolId, !.path = region,
                            !.routed = getJWKS(jwks, userPoolId, region)]
  /\ UNCHANGED << config, pc, req, cfg, result, obs, remembered >>

NextJwks == \E userPoolId \in JwksPools, region \in JwksRegions : JwksCall(userPoolId, region)

SpecJwks == Init /\ [][NextJwks]_vars

\* ------------------------------------------------------------------------
\* C21: no retry: one invocation issues at most one secret-store fetch, one
\* token-exchange request and one token verification; a failed secret fetch
\* is followed at once by the 500 page and a failed token exchange by the
\* 302 to '/', with no further external call.
\* ------------------------------------------------------------------------
C21_NoRetry ==
  \A i \in Inv :
    /\ obs[i].ssmFetches <= 1
    /\ obs[i].exchanges <= 1
    /\ obs[i].verifies <= 1
    /\ (pc[i] = "done" /\ LoadFailed(i))
         => /\ result[i] = Error500
            /\ obs[i].exchanges = 0
            /\ obs[i].verifies = 0
    /\ (pc[i] = "done" /\ ExchangeFailed(i))
         => /\ result[i] = redirect(Str(<< "/" >>), << >>)
            /\ obs[i].verifies = 0

\* ------------------------------------------------------------------------
\* C22: under any interleaving of invocations sharing one execution context
\* the config cache is written at most once and, once it holds a value,
\* never changes to a different value.
\* ------------------------------------------------------------------------
C22_CacheWrittenOnce ==
  [][ config.truthy
        => /\ config' = config
           /\ \A i \in Inv : ~(pc[i] = "ssm" /\ pc'[i] # "ssm" /\ obs'[i].ssm = "json") ]_vars

\* ------------------------------------------------------------------------
\* C23: a redirect state is consumed exactly once: after a callback with
\* that state has completed with the set-cookie redirect, a second callback
\* with the same state does not produce a set-cookie redirect again, and a
\* callback with a state no login redirect ever issued produces none.
\* ------------------------------------------------------------------------
\* the states the login redirects of the flow can issue
FlowIssuableStates ==
  { encodeState(r.host, OriginalPath(r.uri, r.querystring)) :
      r \in { q \in FlowRequests : q.uri # CALLBACK_PATH } }

C23_StateConsumedOnce ==
  \A i \in Inv :
    (pc[i] = "done" /\ req[i].uri = CALLBACK_PATH /\ IsSetCookieRedirect(result[i]))
      => /\ remembered.result # NoResult
         /\ StateParam(req[i]) \in FlowIssuableStates
         /\ ~(remembered.consumed /\ StateParam(req[i]) = IssuedState(remembered))

\* ------------------------------------------------------------------------
\* C24: a callback whose code is exchanged successfully but whose state is
\* absent, empty or malformed is answered with a 302 to
\* https://hosting.nipalm.com/ with the session cookie set.
\* ------------------------------------------------------------------------
C24_BadStateGivesDefault ==
  \A i \in Inv :
    ( /\ pc[i] = "done"
      /\ req[i].uri = CALLBACK_PATH
      /\ obs[i].exchange = "json"
      /\ obs[i].idToken # NULL
      /\ (StateParam(req[i]) = NULL \/ ~IsEncoderOutput(StateParam(req[i]))) )
      => result[i] = redirect(Str(<< "h", "t", "t", "p", "s", ":", "/", "/", "h", "o", "s", "t", "i", "n",
         "g", ".", "n", "i", "p", "a", "l", "m", ".", "c", "o", "m", "/" >>),
                              << createAuthCookie(obs[i].idToken) >>)

\* ------------------------------------------------------------------------
\* C25: the login flow does not loop: after a login redirect for any host,
\* once the callback has set the cookie and redirected, the follow-up request
\* to the redirect target carries the session cookie (the cookie's Domain
\* covers the target) and is not answered with another login redirect,
\* provided the issued token verifies.
\* ------------------------------------------------------------------------
\* a browser sends a cookie with Domain=.hosting.nipalm.com to this host
DomainCovers(host) == host = APEX_DOMAIN \/ EndsWith(host, COOKIE_DOMAIN)

\* r is the request a browser sends on following the set-cookie redirect
\* noted in m: to the redirect target, with the new cookie where its Domain
\* covers the host and with the cookies it had otherwise
FollowsUp(r, m) ==
  /\ m.consumed
  /\ m.target = Str(<< "h", "t", "t", "p", "s", ":", "/", "/" >>) \o r.host \o OriginalPath(r.uri, r.querystring)
  /\ r.cookie = IF DomainCovers(r.host) THEN CookieOf(m.idToken) ELSE m.cookie

C25_NoLoginLoop ==
  \A i \in Inv :
    ( /\ pc[i] = "done"
      /\ remembered.idToken = TokenGood
      /\ FollowsUp(req[i], remembered)
      /\ obs[i].verified # "false" )
      => /\ DomainCovers(req[i].host)
         /\ ~IsLoginRedirect(result[i], cfg[i])

\* ------------------------------------------------------------------------
\* C26: for a fixed cookie value and config, whether handler forwards or
\* redirects to login depends only on what verifyToken returned for that
\* value, not on the tenant host: the request is forwarded exactly when
\* verifyToken returned true, and verifyToken is given nothing of the host.
\* ------------------------------------------------------------------------
C26_DecisionIgnoresHost ==
  \A i \in Inv :
    (pc[i] = "done" /\ IsTenantRequest(req[i]) /\ cfg[i].truthy)
      => /\ result[i].kind = "forward" <=> obs[i].verified = "true"
         /\ result[i].kind # "forward" => IsLoginRedirect(result[i], cfg[i])
         /\ obs[i].verified = "true"
              => verifyToken(parseCookies(req[i].cookie, COOKIE_NAME), jwks, TRUE,
                             cfg[i].userPoolId, cfg[i].cognitoRegion, cfg[i].clientId)
                   = "true"
         /\ obs[i].verified = "none" => obs[i].verifies = 0

C26_Witness ==
  \E i \in Inv :
    /\ pc[i] = "done"
    /\ req[i].host = HostPipe
    /\ req[i].cookie = CookieOf(TokenGood)
    /\ obs[i].verified = "true"
    /\ result[i].kind = "forward"
    /\ result[i].uri # NOT_FOUND_URI

\* ------------------------------------------------------------------------
\* C27: on the callback-success outcome the host of the Location is the apex
\* domain or ends with '.hosting.nipalm.com', for every state value a caller
\* can supply; the session cookie is never set on a redirect that leaves the
\* platform's domain.
\* ------------------------------------------------------------------------
\* the host of an https URL: what lies between 'https://' and the next '/'
\* (the path decodeState returns is never empty)
LocationHost(url) ==
  LET rest == Slice(url, 9, Len(url))
      k == IndexOf(rest, << Slash >>)
  IN  IF k = 0 THEN rest ELSE Slice(rest, 1, k - 1)

C27_RedirectStaysOnPlatform ==
  \A i \in Inv :
    (pc[i] = "done" /\ req[i].uri = CALLBACK_PATH /\ IsSetCookieRedirect(result[i]))
      => /\ StartsWith(result[i].location, Str(<< "h", "t", "t", "p", "s", ":", "/", "/" >>))
         /\ \/ LocationHost(result[i].location) = APEX_DOMAIN
            \/ EndsWith(LocationHost(result[i].location), BASE_DOMAIN)

\* ------------------------------------------------------------------------
\* C28: for every authenticated request on a valid tenant host and every
\* request path, the forwarded URI contains no '..' path segment.
\* ------------------------------------------------------------------------
C28_NoTraversal ==
  \A i \in Inv :
    ( /\ pc[i] = "done"
      /\ result[i].kind = "forward"
      /\ obs[i].verified = "true"
      /\ HasValidPrefix(req[i].host) )
      => \A k \in 1..Len(Split(result[i].uri, Slash)) :
           Split(result[i].uri, Slash)[k] # DotDot

\* ------------------------------------------------------------------------
\* C29: a failed config load leaves the cache empty: after an invocation in
\* which loadConfig threw or yielded null, the next invocation issues a new
\* secret-store fetch and succeeds if the store then returns a valid value.
\* ------------------------------------------------------------------------
C29_FailureNotCached ==
  [][ \A i \in Inv :
        /\ (pc[i] = "ssm" /\ pc'[i] = "done" /\ LoadFailed(i)')
             => (~config'.truthy /\ result'[i] = Error500)
        /\ (pc[i] = "idle" /\ pc'[i] # "idle" /\ ~config.truthy)
             => (pc'[i] = "ssm" /\ obs'[i].ssmFetches = 1)
        /\ (pc[i] = "ssm" /\ pc'[i] # "ssm" /\ obs'[i].ssm = "json" /\ cfg'[i].truthy)
             => (config' = cfg'[i] /\ result'[i] # Error500) ]_vars

C29_Witness ==
  \E i \in Inv :
    /\ remembered.failedLoad
    /\ pc[i] = "done"
    /\ obs[i].ssmFetches = 1
    /\ obs[i].ssm = "json"
    /\ config = ConfigA
    /\ cfg[i] = ConfigA
    /\ result[i].kind = "forward"

\* ------------------------------------------------------------------------
\* C30: the key-set cache is keyed by issuer: every call
\* getJWKS(userPoolId, region) returns the key set of the issuer computed
\* from that call's arguments, also after an earlier call with other
\* arguments.
\* ------------------------------------------------------------------------
C30_KeySetOfCallersIssuer ==
  call.stage = "jwks" => call.routed = Issuer(call.path, call.host)

====
